---------------------------- MODULE Spec2Model ----------------------------
(***************************************************************************)
(* Model of vtkFreehandCalibrationTest.cxx (src/unnamed/part_000): main's  *)
(* verdict mapping and CompareCalibrationResultsWithBaseline, the linear   *)
(* pass that compares a baseline result document with the current one.     *)
(*                                                                         *)
(* Doubles are fixed-point integers: the double x is the integer x * Scale. *)
(* The ratio of two doubles is kept as an exact fraction (or an IEEE-754    *)
(* infinity / NaN when the divisor is zero), so comparisons against         *)
(* 1 +/- ERROR_THRESHOLD are exact.                                         *)
(***************************************************************************)
EXTENDS Integers, Sequences, FiniteSets, TLC

\* The fixed-point unit: the double 1.0.
Scale == 10^4

(***************************************************************************)
(* Program constants.                                                       *)
(***************************************************************************)
\* const double ERROR_THRESHOLD = 0.05
ERROR_THRESHOLD == 500
\* double blTransformImageToProbe[16]
TransformLength == 16
\* double blPRE[9]
PRELength == 9
\* double blPLDE[3]
PLDELength == 3
\* <stdlib.h>
EXIT_SUCCESS == 0
EXIT_FAILURE == 1

NULL == "NULL"
\* Value of a double local that has not been assigned yet.
Unset == 0 - 1

(***************************************************************************)
(* Bounds of the explored inputs.                                           *)
(***************************************************************************)
\* Defects (unreadable file, missing section, missing or mis-sized attribute)
\* spread over the two documents of a structurally damaged pair.
MaxDefects == 2
\* Leading vector components that vary in a baseline / current metric vector.
NumVarBl == 1
NumVarCur == 2
\* Rotation angles 0, 10, ..., 10 * MaxRot degrees.
MaxRot == 2
\* Translation shifts 0, 0.5, ..., 0.5 * MaxShift along x.
MaxShift == 3
\* Thresholds 0, 0.5, ..., 0.5 * MaxThr.
MaxThr == 3

(***************************************************************************)
(* Result documents (vtkXMLDataElement trees read from the two files).      *)
(* sections: the names of the nested elements that are present; attribute   *)
(* values are sequences of doubles, the empty sequence when absent.         *)
(***************************************************************************)
SectionNames ==
  {"CalibrationResults", "CalibrationTransform", "ErrorReports",
   "PointReconstructionErrorAnalysis", "PointLineDistanceErrorAnalysis"}

AttrNames == {"TransformImageToProbe", "PRE", "PREConf", "PLDE", "PLDEConf"}

Const(n, v) == [i \in 1..n |-> v]

\* cos(10 k degrees) * Scale, k = 0..18.
CosTable ==
  <<10000, 9848, 9397, 8660, 7660, 6428, 5000, 3420, 1736, 0,
    -1736, -3420, -5000, -6428, -7660, -8660, -9397, -9848, -10000>>

Cos10(k) == CosTable[k + 1]
Sin10(k) == CosTable[10 - k]

\* Row-major 4x4 homogeneous transform: rotation by 10k degrees about the
\* z axis (axis = "z") or the x axis (axis = "x"), translation t.
MakeTransform(axis, k, t) ==
  IF axis = "z"
    THEN << Cos10(k), -Sin10(k), 0, t[1],
            Sin10(k),  Cos10(k), 0, t[2],
            0, 0, Scale, t[3],
            0, 0, 0, Scale >>
    ELSE << Scale, 0, 0, t[1],
            0, Cos10(k), -Sin10(k), t[2],
            0, Sin10(k),  Cos10(k), t[3],
            0, 0, 0, Scale >>

BaseTransform == MakeTransform("z", 0, <<0, 0, 0>>)

BaseDoc ==
  [loaded   |-> TRUE,
   sections |-> SectionNames,
   TransformImageToProbe |-> BaseTransform,
   PRE      |-> Const(PRELength, Scale),
   PREConf  |-> <<(95 * Scale) \div 100>>,
   PLDE     |-> Const(PLDELength, Scale),
   PLDEConf |-> <<(95 * Scale) \div 100>>]

\* A current document in which every compared value is out of tolerance
\* against BaseDoc: shifted by 0.2, rotated by 10 degrees, metrics scaled.
BadDoc ==
  [BaseDoc EXCEPT
     !.TransformImageToProbe = MakeTransform("z", 1, <<Scale \div 5, 0, 0>>),
     !.PRE      = Const(PRELength, (12 * Scale) \div 10),
     !.PREConf  = <<Scale \div 2>>,
     !.PLDE     = Const(PLDELength, (12 * Scale) \div 10),
     !.PLDEConf = <<Scale \div 2>>]

(***************************************************************************)
(* Structural damage of a document pair.                                    *)
(***************************************************************************)
VectorAttrs == {"TransformImageToProbe", "PRE", "PLDE"}

DefectKinds ==
  {<<"unreadable", "file">>}
    \cup {<<"section", s>> : s \in SectionNames}
    \cup {<<"absent", a>> : a \in AttrNames}
    \cup {<<"length", a>> : a \in VectorAttrs}

Sites == {<<w, k[1], k[2]>> : w \in {"baseline", "current"}, k \in DefectKinds}

RECURSIVE DefectSets(_)
DefectSets(k) ==
  IF k = 0 THEN {{}}
  ELSE LET prev == DefectSets(k - 1)
       IN  prev \cup {s \cup {x} : s \in prev, x \in Sites}

\* The attribute value with one element fewer than declared.
Shortened(v) == SubSeq(v, 1, Len(v) - 1)

DamagedAttr(d, w, S, a) ==
  IF <<w, "absent", a>> \in S THEN << >>
  ELSE IF <<w, "length", a>> \in S THEN Shortened(d[a])
  ELSE d[a]

Damaged(d, w, S) ==
  [loaded   |-> <<w, "unreadable", "file">> \notin S,
   sections |-> {s \in d.sections : <<w, "section", s>> \notin S},
   TransformImageToProbe |-> DamagedAttr(d, w, S, "TransformImageToProbe"),
   PRE      |-> DamagedAttr(d, w, S, "PRE"),
   PREConf  |-> DamagedAttr(d, w, S, "PREConf"),
   PLDE     |-> DamagedAttr(d, w, S, "PLDE"),
   PLDEConf |-> DamagedAttr(d, w, S, "PLDEConf")]

(***************************************************************************)
(* Value sets.                                                              *)
(***************************************************************************)
\* -1.0, 0, 0.951, 1.0, 1.04 (within 5% of 1.0), 1.2 (outside).
MetricVals ==
  {0 - Scale, 0, (951 * Scale) \div 1000, Scale, (104 * Scale) \div 100,
   (12 * Scale) \div 10}

\* Vectors of length n whose first k components range over MetricVals and
\* whose other components are 1.0.
VaryingVectors(n, k) ==
  {[i \in 1..n |-> IF i <= k THEN f[i] ELSE Scale] : f \in [1..k -> MetricVals]}

\* Threshold values as typed on the command line: 0.05 and multiples of 0.5.
TranslationThresholds ==
  {Scale \div 20} \cup {(k * Scale) \div 2 : k \in 0..MaxThr}

\* Rotation thresholds in degrees: 1.0, 10.0 and multiples of 0.5.
RotationThresholds ==
  {Scale, 10 * Scale} \cup {(k * Scale) \div 2 : k \in 0..MaxThr}

\* Translations: 0.2 or a multiple of 0.5 along x, optionally with (0.3, 0.4)
\* in y and z.
Translations ==
  {<<x, yz[1], yz[2]>> :
     x \in {Scale \div 5} \cup {(k * Scale) \div 2 : k \in 0..MaxShift},
     yz \in {<<0, 0>>, <<(3 * Scale) \div 10, (4 * Scale) \div 10>>}}

Rotations == {<<axis, k>> : axis \in {"z", "x"}, k \in 0..MaxRot}

(***************************************************************************)
(* Program state.                                                           *)
(***************************************************************************)
VARIABLES
  baseline,                        \* the file named by inputBaselineFileName
  current,                         \* the file named by currentConfigFileName
  inputTranslationErrorThreshold,  \* main's double
  inputRotationErrorThreshold,     \* main's double
  translationErrorThreshold,       \* the callee's int parameter
  rotationErrorThreshold,          \* the callee's int parameter
  pc,                              \* the next block to execute
  numberOfFailures,
  translationError,
  rotationError,
  log,                             \* the LOG_ERROR lines written so far
  visited,                         \* the blocks executed so far
  ratios,                          \* the divisions evaluated so far, as
                                   \* <<attribute, dividend, divisor>>
  result,                          \* the value returned by the comparison
  exitStatus                       \* the process exit status

vars ==
  <<baseline, current, inputTranslationErrorThreshold,
    inputRotationErrorThreshold, translationErrorThreshold,
    rotationErrorThreshold, pc, numberOfFailures, translationError,
    rotationError, log, visited, ratios, result, exitStatus>>

inputs ==
  <<baseline, current, inputTranslationErrorThreshold,
    inputRotationErrorThreshold>>

errors == <<translationError, rotationError>>

(***************************************************************************)
(* vtkXMLDataElement queries.                                               *)
(***************************************************************************)
\* vtkXMLUtilities::ReadElementFromFile: the root element, NULL on failure.
ReadElementFromFile(doc) == IF doc.loaded THEN "Root" ELSE NULL

\* The nested element called name, NULL when there is none.  The parent is
\* always the element found one level up by the caller.
FindNestedElementWithName(doc, name) ==
  IF name \in doc.sections THEN name ELSE NULL

\* TRUE iff the attribute is present with the requested number of values.
GetVectorAttribute(doc, name, length) == Len(doc[name]) = length

GetScalarAttribute(doc, name) == Len(doc[name]) = 1

(***************************************************************************)
(* Arithmetic on doubles.                                                   *)
(***************************************************************************)
\* Conversion of a double to int at the call: truncation toward zero.
DoubleToInt(x) == IF x >= 0 THEN x \div Scale ELSE 0 - ((0 - x) \div Scale)

\* Conversion of an int to double in a comparison with a double.
IntToDouble(n) == n * Scale

RECURSIVE SqrtSearch(_, _, _)
SqrtSearch(n, lo, hi) ==
  IF lo = hi THEN lo
  ELSE LET mid == (lo + hi + 1) \div 2
       IN  IF mid * mid <= n THEN SqrtSearch(n, mid, hi)
           ELSE SqrtSearch(n, lo, mid - 1)

\* sqrt of the double whose fixed-point square is n (n = x * x for the
\* fixed-point x), rounded down to the fixed-point grid.
Sqrt(n) == SqrtSearch(n, 0, 40000)

\* b / c in IEEE-754 arithmetic: an exact fraction, or for a zero divisor
\* +inf, -inf or NaN.
Ratio(b, c) ==
  IF c # 0 THEN [kind |-> "finite", num |-> b, den |-> c]
  ELSE IF b > 0 THEN [kind |-> "+inf", num |-> b, den |-> c]
  ELSE IF b < 0 THEN [kind |-> "-inf", num |-> b, den |-> c]
  ELSE [kind |-> "nan", num |-> b, den |-> c]

\* ratio > x for a double x; every comparison with NaN is false.
RatioGreater(r, x) ==
  CASE r.kind = "finite" ->
         IF r.den > 0 THEN r.num * Scale > x * r.den
         ELSE r.num * Scale < x * r.den
    [] r.kind = "+inf" -> TRUE
    [] OTHER -> FALSE

\* ratio < x for a double x.
RatioLess(r, x) ==
  CASE r.kind = "finite" ->
         IF r.den > 0 THEN r.num * Scale < x * r.den
         ELSE r.num * Scale > x * r.den
    [] r.kind = "-inf" -> TRUE
    [] OTHER -> FALSE

\* RatioMismatch with the operands of the division exchanged.
RatioMismatchSwapped(b, c) ==
  \/ RatioGreater(Ratio(c, b), Scale + ERROR_THRESHOLD)
  \/ RatioLess(Ratio(c, b), Scale - ERROR_THRESHOLD)

\* ratio > 1 + ERROR_THRESHOLD || ratio < 1 - ERROR_THRESHOLD
RatioMismatch(b, c) ==
  \/ RatioGreater(Ratio(b, c), Scale + ERROR_THRESHOLD)
  \/ RatioLess(Ratio(b, c), Scale - ERROR_THRESHOLD)

(***************************************************************************)
(* Transforms.                                                              *)
(***************************************************************************)
\* MatrixFromArray with the indices swapped: column-major fill.
MatrixFromArrayColumnMajor(v) ==
  [i \in 0..3 |-> [j \in 0..3 |-> v[4 * j + i + 1]]]

\* The nested loops of SetElement(i, j, v[4*i + j]): row-major fill.
MatrixFromArray(v) == [i \in 0..3 |-> [j \in 0..3 |-> v[4 * i + j + 1]]]

\* vtkTransform::GetPosition: the last column of the first three rows.
GetPosition(m) == <<m[0][3], m[1][3], m[2][3]>>

\* GetCalibrationError without the z term.
GetCalibrationErrorPlanar(baseTransMatrix, currentTransMatrix) ==
  LET b == <<baseTransMatrix[0][3], baseTransMatrix[1][3]>>
      c == <<currentTransMatrix[0][3], currentTransMatrix[1][3]>>
  IN  Sqrt((b[1] - c[1]) * (b[1] - c[1]) + (b[2] - c[2]) * (b[2] - c[2]))

\* Euclidean distance of the two positions.
GetCalibrationError(baseTransMatrix, currentTransMatrix) ==
  LET b == GetPosition(baseTransMatrix)
      c == GetPosition(currentTransMatrix)
  IN  Sqrt((b[1] - c[1]) * (b[1] - c[1])
           + (b[2] - c[2]) * (b[2] - c[2])
           + (b[3] - c[3]) * (b[3] - c[3]))

\* PlusMath::GetPositionDifference: the Euclidean distance between the
\* translation components of the two matrices.
GetPositionDifference(a, b) ==
  Sqrt((a[0][3] - b[0][3]) * (a[0][3] - b[0][3])
       + (a[1][3] - b[1][3]) * (a[1][3] - b[1][3])
       + (a[2][3] - b[2][3]) * (a[2][3] - b[2][3]))

\* R_rel = R_a^T . R_b on the upper-left 3x3 blocks.
RelativeRotation(a, b) ==
  [i \in 0..2 |-> [j \in 0..2 |->
     (a[0][i] * b[0][j] + a[1][i] * b[1][j] + a[2][i] * b[2][j]) \div Scale]]

Trace(r) == r[0][0] + r[1][1] + r[2][2]

Abs(x) == IF x < 0 THEN 0 - x ELSE x

\* arccos in degrees, to the nearest multiple of 10 degrees.
ArcCosDegrees(c) ==
  LET k == CHOOSE k \in 0..18 :
             \A j \in 0..18 : Abs(Cos10(k) - c) <= Abs(Cos10(j) - c)
  IN  10 * k * Scale

\* PlusMath::GetOrientationDifference: the angle, in degrees, of the
\* relative rotation: arccos((trace(R_rel) - 1) / 2).
GetOrientationDifference(a, b) ==
  ArcCosDegrees((Trace(RelativeRotation(a, b)) - Scale) \div 2)

\* ExceedsThreshold with >= for >.
ExceedsOrEquals(error, threshold) == error >= IntToDouble(threshold)

\* error > threshold, the int threshold converted to double.
ExceedsThreshold(error, threshold) == error > IntToDouble(threshold)

(***************************************************************************)
(* Steps of the program.                                                    *)
(***************************************************************************)
\* The state before main runs, given the two files and the two thresholds
\* of the command line.
Start(bl, cur, t, r) ==
  /\ baseline = bl
  /\ current = cur
  /\ inputTranslationErrorThreshold = t
  /\ inputRotationErrorThreshold = r
  /\ translationErrorThreshold = 0
  /\ rotationErrorThreshold = 0
  /\ pc = "main"
  /\ numberOfFailures = 0
  /\ translationError = Unset
  /\ rotationError = Unset
  /\ log = << >>
  /\ visited = {}
  /\ ratios = {}
  /\ result = Unset
  /\ exitStatus = Unset

\* Structurally damaged pairs, the current document equal to the baseline or
\* out of tolerance everywhere.
StructuralInputs ==
  \E S \in DefectSets(MaxDefects), c \in {BaseDoc, BadDoc} :
    Start(Damaged(BaseDoc, "baseline", S), Damaged(c, "current", S),
          Scale \div 20, Scale)

\* Intact pairs that differ in one metric attribute.
MetricInputs ==
  \/ \E b \in VaryingVectors(PRELength, NumVarBl),
        c \in VaryingVectors(PRELength, NumVarCur) :
       Start([BaseDoc EXCEPT !.PRE = b], [BaseDoc EXCEPT !.PRE = c],
             Scale \div 20, Scale)
  \/ \E b \in VaryingVectors(PLDELength, NumVarBl),
        c \in VaryingVectors(PLDELength, NumVarCur) :
       Start([BaseDoc EXCEPT !.PLDE = b], [BaseDoc EXCEPT !.PLDE = c],
             Scale \div 20, Scale)
  \/ \E b \in MetricVals, c \in MetricVals :
       Start([BaseDoc EXCEPT !.PREConf = <<b>>],
             [BaseDoc EXCEPT !.PREConf = <<c>>], Scale \div 20, Scale)
  \/ \E b \in MetricVals, c \in MetricVals :
       Start([BaseDoc EXCEPT !.PLDEConf = <<b>>],
             [BaseDoc EXCEPT !.PLDEConf = <<c>>], Scale \div 20, Scale)

\* Intact pairs with equal metrics whose transforms differ: same rotation
\* axis, any two angles, the baseline at the origin.
TransformInputs ==
  \E a \in Rotations, k \in 0..MaxRot, p \in Translations,
     t \in TranslationThresholds, r \in RotationThresholds :
    Start([BaseDoc EXCEPT
             !.TransformImageToProbe = MakeTransform(a[1], a[2], <<0, 0, 0>>)],
          [BaseDoc EXCEPT
             !.TransformImageToProbe = MakeTransform(a[1], k, p)],
          t, r)

\* Valid documents: any transform, or any one metric attribute varied.
ValidDocs ==
  {[BaseDoc EXCEPT !.TransformImageToProbe = MakeTransform(a[1], a[2], p)] :
     a \in Rotations, p \in Translations}
  \cup {[BaseDoc EXCEPT !.PRE = v] : v \in VaryingVectors(PRELength, NumVarCur)}
  \cup {[BaseDoc EXCEPT !.PLDE = v] : v \in VaryingVectors(PLDELength, NumVarCur)}
  \cup {[BaseDoc EXCEPT !.PREConf = <<v>>, !.PLDEConf = <<w>>] :
          v \in MetricVals, w \in MetricVals}

\* One valid document as baseline and as current.
IdentityInputs ==
  \E d \in ValidDocs, t \in TranslationThresholds, r \in RotationThresholds :
    Start(d, d, t, r)

Init ==
  \/ StructuralInputs
  \/ MetricInputs
  \/ TransformInputs
  \/ IdentityInputs

\* LOG_ERROR(msg); numberOfFailures++;  A log line is <<text, subject>>, or
\* <<text, subject, i>> for component i of a vector.
Fail(msg) ==
  /\ log' = Append(log, msg)
  /\ numberOfFailures' = numberOfFailures + 1

\* Return with the constant 1 for the accumulated count.
ReturnOne ==
  /\ pc' = "return"
  /\ result' = 1

\* return numberOfFailures;
Return ==
  /\ pc' = "return"
  /\ result' = numberOfFailures'

Enter(label) ==
  /\ pc = label
  /\ visited' = visited \cup {label}

\* main up to the comparison: argument parsing, configuration, segmentation
\* and calibration; any failure exits with EXIT_FAILURE.  On success the
\* comparison is called, its int parameters initialised from the doubles.
Calibrate ==
  /\ Enter("main")
  /\ \E ok \in BOOLEAN :
       IF ok
         THEN /\ pc' = "ReadDocuments"
              /\ translationErrorThreshold' =
                   DoubleToInt(inputTranslationErrorThreshold)
              /\ rotationErrorThreshold' =
                   DoubleToInt(inputRotationErrorThreshold)
              /\ UNCHANGED exitStatus
         ELSE /\ pc' = "exit"
              /\ exitStatus' = EXIT_FAILURE
              /\ UNCHANGED <<translationErrorThreshold, rotationErrorThreshold>>
  /\ UNCHANGED <<inputs, numberOfFailures, errors, log, ratios, result>>

\* ReadDocuments without its return statements.
ReadDocumentsNoReturn ==
  /\ Enter("ReadDocuments")
  /\ IF ReadElementFromFile(baseline) = NULL
       THEN Fail(<<"Reading baseline data file failed", "file">>)
     ELSE IF ReadElementFromFile(current) = NULL
       THEN Fail(<<"Reading newly generated data file failed", "file">>)
     ELSE UNCHANGED <<numberOfFailures, log>>
  /\ pc' = "CalibrationResults"
  /\ UNCHANGED <<inputs, translationErrorThreshold, rotationErrorThreshold,
                 errors, ratios, result, exitStatus>>

\* Both files are read; a NULL root is one failure and an immediate return.
ReadDocuments ==
  /\ Enter("ReadDocuments")
  /\ IF ReadElementFromFile(baseline) = NULL
       THEN Fail(<<"Reading baseline data file failed", "file">>) /\ Return
     ELSE IF ReadElementFromFile(current) = NULL
       THEN Fail(<<"Reading newly generated data file failed", "file">>) /\ Return
     ELSE /\ pc' = "CalibrationResults"
          /\ UNCHANGED <<numberOfFailures, log, result>>
  /\ UNCHANGED <<inputs, translationErrorThreshold, rotationErrorThreshold,
                 errors, ratios, exitStatus>>

\* SectionGate without its return statements.
SectionGateNoReturn(label, name, next) ==
  /\ Enter(label)
  /\ IF FindNestedElementWithName(baseline, name) = NULL
       THEN Fail(<<"Reading baseline tag failed", name>>)
     ELSE IF FindNestedElementWithName(current, name) = NULL
       THEN Fail(<<"Reading current tag failed", name>>)
     ELSE UNCHANGED <<numberOfFailures, log>>
  /\ pc' = next
  /\ UNCHANGED <<inputs, translationErrorThreshold, rotationErrorThreshold,
                 errors, ratios, result, exitStatus>>

\* The two FindNestedElementWithName calls of a block and their NULL checks.
SectionGate(label, name, next) ==
  /\ Enter(label)
  /\ IF FindNestedElementWithName(baseline, name) = NULL
       THEN Fail(<<"Reading baseline tag failed", name>>) /\ Return
     ELSE IF FindNestedElementWithName(current, name) = NULL
       THEN Fail(<<"Reading current tag failed", name>>) /\ Return
     ELSE /\ pc' = next
          /\ UNCHANGED <<numberOfFailures, log, result>>
  /\ UNCHANGED <<inputs, translationErrorThreshold, rotationErrorThreshold,
                 errors, ratios, exitStatus>>

CheckCalibrationResults ==
  SectionGate("CalibrationResults", "CalibrationResults", "CalibrationTransform")

CheckCalibrationTransform ==
  SectionGate("CalibrationTransform", "CalibrationTransform",
              "TransformImageToProbe")

\* The TransformImageToProbe block: attribute reads, matrix assembly, the
\* translation check and the rotation check.
CheckTransformImageToProbe ==
  /\ Enter("TransformImageToProbe")
  /\ IF ~GetVectorAttribute(baseline, "TransformImageToProbe", TransformLength)
       THEN /\ Fail(<<"Baseline attribute is missing", "TransformImageToProbe">>)
            /\ UNCHANGED errors
     ELSE IF ~GetVectorAttribute(current, "TransformImageToProbe", TransformLength)
       THEN /\ Fail(<<"Current attribute is missing", "TransformImageToProbe">>)
            /\ UNCHANGED errors
     ELSE LET baseTransMatrix == MatrixFromArray(baseline.TransformImageToProbe)
              currentTransMatrix == MatrixFromArray(current.TransformImageToProbe)
              te == GetPositionDifference(baseTransMatrix, currentTransMatrix)
              re == GetOrientationDifference(baseTransMatrix, currentTransMatrix)
              tLog == IF ExceedsThreshold(te, translationErrorThreshold)
                        THEN <<<<"translation error is higher than expected", "TransformImageToProbe">>>>
                        ELSE << >>
              rLog == IF ExceedsThreshold(re, rotationErrorThreshold)
                        THEN <<<<"rotation error is higher than expected", "TransformImageToProbe">>>>
                        ELSE << >>
          IN  /\ translationError' = te
              /\ rotationError' = re
              /\ log' = log \o tLog \o rLog
              /\ numberOfFailures' = numberOfFailures + Len(tLog) + Len(rLog)
  /\ pc' = "ErrorReports"
  /\ UNCHANGED <<inputs, translationErrorThreshold, rotationErrorThreshold,
                 ratios, result, exitStatus>>

CheckErrorReports ==
  SectionGate("ErrorReports", "ErrorReports", "PointReconstructionErrorAnalysis")

CheckPointReconstructionErrorAnalysis ==
  SectionGate("PointReconstructionErrorAnalysis",
              "PointReconstructionErrorAnalysis", "PRE")

\* VectorMismatches with a break after the first mismatch.
VectorMismatchesBreak(bl, c, length) ==
  LET all == SelectSeq([i \in 1..length |-> i - 1],
                       LAMBDA i : RatioMismatch(bl[i + 1], c[i + 1]))
  IN  IF all = << >> THEN << >> ELSE <<Head(all)>>

\* The loop over the components of a vector metric: the indices i (from 0)
\* whose ratio bl[i] / c[i] is out of range, in loop order.
VectorMismatches(bl, c, length) ==
  SelectSeq([i \in 1..length |-> i - 1],
            LAMBDA i : RatioMismatch(bl[i + 1], c[i + 1]))

\* VectorCheck returning, as the section checks do, when the attribute is
\* missing.
VectorCheckReturns(label, attr, length, next) ==
  /\ Enter(label)
  /\ IF ~GetVectorAttribute(baseline, attr, length)
       THEN /\ Fail(<<"Baseline attribute is missing", attr>>)
            /\ Return
            /\ UNCHANGED ratios
     ELSE IF ~GetVectorAttribute(current, attr, length)
       THEN /\ Fail(<<"Current attribute is missing", attr>>)
            /\ Return
            /\ UNCHANGED ratios
     ELSE LET bad == VectorMismatches(baseline[attr], current[attr], length)
          IN  /\ log' = log \o [k \in 1..Len(bad) |->
                                  <<"element mismatch", attr, bad[k]>>]
              /\ numberOfFailures' = numberOfFailures + Len(bad)
              /\ ratios' = ratios \cup
                   {<<attr, baseline[attr][i], current[attr][i]>> : i \in 1..length}
              /\ pc' = next
              /\ UNCHANGED result
  /\ UNCHANGED <<inputs, translationErrorThreshold, rotationErrorThreshold,
                 errors, exitStatus>>

\* A vector metric: attribute reads, then the loop.
VectorCheck(label, attr, length, next) ==
  /\ Enter(label)
  /\ IF ~GetVectorAttribute(baseline, attr, length)
       THEN /\ Fail(<<"Baseline attribute is missing", attr>>)
            /\ UNCHANGED ratios
     ELSE IF ~GetVectorAttribute(current, attr, length)
       THEN /\ Fail(<<"Current attribute is missing", attr>>)
            /\ UNCHANGED ratios
     ELSE LET bad == VectorMismatches(baseline[attr], current[attr], length)
          IN  /\ log' = log \o [k \in 1..Len(bad) |->
                                  <<"element mismatch", attr, bad[k]>>]
              /\ numberOfFailures' = numberOfFailures + Len(bad)
              /\ ratios' = ratios \cup
                   {<<attr, baseline[attr][i], current[attr][i]>> : i \in 1..length}
  /\ pc' = next
  /\ UNCHANGED <<inputs, translationErrorThreshold, rotationErrorThreshold,
                 errors, result, exitStatus>>

\* A ValidationDataConfidenceLevel: attribute reads, then the ratio check.
ScalarCheck(label, attr) ==
  /\ Enter(label)
  /\ IF ~GetScalarAttribute(baseline, attr)
       THEN /\ Fail(<<"Baseline attribute is missing", attr>>)
            /\ UNCHANGED ratios
     ELSE IF ~GetScalarAttribute(current, attr)
       THEN /\ Fail(<<"Current attribute is missing", attr>>)
            /\ UNCHANGED ratios
     ELSE /\ IF RatioMismatch(baseline[attr][1], current[attr][1])
               THEN Fail(<<"mismatch", attr>>)
               ELSE UNCHANGED <<log, numberOfFailures>>
          /\ ratios' = ratios \cup {<<attr, baseline[attr][1], current[attr][1]>>}
  /\ UNCHANGED <<inputs, translationErrorThreshold, rotationErrorThreshold,
                 errors, exitStatus>>

CheckPRE == VectorCheck("PRE", "PRE", PRELength, "PREConf")

CheckPREConfidence ==
  /\ ScalarCheck("PREConf", "PREConf")
  /\ pc' = "PointLineDistanceErrorAnalysis"
  /\ UNCHANGED result

CheckPointLineDistanceErrorAnalysis ==
  SectionGate("PointLineDistanceErrorAnalysis",
              "PointLineDistanceErrorAnalysis", "PLDE")

CheckPLDE == VectorCheck("PLDE", "PLDE", PLDELength, "PLDEConf")

\* The last block, followed by the final return numberOfFailures.
CheckPLDEConfidence ==
  /\ ScalarCheck("PLDEConf", "PLDEConf")
  /\ Return

\* Exit testing the returned count against 1, as if it were a PlusStatus.
ExitOnStatus ==
  /\ Enter("return")
  /\ IF result # 1
       THEN /\ log' = Append(log, <<"Comparison of calibration data to baseline failed", "main">>)
            /\ exitStatus' = EXIT_FAILURE
       ELSE /\ UNCHANGED log
            /\ exitStatus' = EXIT_SUCCESS
  /\ pc' = "exit"
  /\ UNCHANGED <<inputs, translationErrorThreshold, rotationErrorThreshold,
                 numberOfFailures, errors, ratios, result>>

\* main after the comparison returned: the verdict.
Exit ==
  /\ Enter("return")
  /\ IF result # 0
       THEN /\ log' = Append(log, <<"Comparison of calibration data to baseline failed", "main">>)
            /\ exitStatus' = EXIT_FAILURE
       ELSE /\ UNCHANGED log
            /\ exitStatus' = EXIT_SUCCESS
  /\ pc' = "exit"
  /\ UNCHANGED <<inputs, translationErrorThreshold, rotationErrorThreshold,
                 numberOfFailures, errors, ratios, result>>

Next ==
  \/ Calibrate
  \/ ReadDocuments
  \/ CheckCalibrationResults
  \/ CheckCalibrationTransform
  \/ CheckTransformImageToProbe
  \/ CheckErrorReports
  \/ CheckPointReconstructionErrorAnalysis
  \/ CheckPRE
  \/ CheckPREConfidence
  \/ CheckPointLineDistanceErrorAnalysis
  \/ CheckPLDE
  \/ CheckPLDEConfidence
  \/ Exit

Spec == Init /\ [][Next]_vars

(***************************************************************************)
(* Vocabulary of the properties.                                            *)
(***************************************************************************)
\* The blocks of the comparison in source order.
BlockOrder ==
  <<"ReadDocuments", "CalibrationResults", "CalibrationTransform",
    "TransformImageToProbe", "ErrorReports",
    "PointReconstructionErrorAnalysis", "PRE", "PREConf",
    "PointLineDistanceErrorAnalysis", "PLDE", "PLDEConf">>

BlockIndex(label) == CHOOSE i \in DOMAIN BlockOrder : BlockOrder[i] = label

BlocksAfter(label) ==
  {BlockOrder[i] : i \in {j \in DOMAIN BlockOrder : j > BlockIndex(label)}}

\* The comparison has returned.
Returned == pc \in {"return", "exit"} /\ result # Unset

\* The log lines written by the comparison (not by main).
ComparisonLog == SelectSeq(log, LAMBDA e : e[2] # "main")

\* The log lines about one section or attribute.
LinesAbout(subject) == SelectSeq(log, LAMBDA e : e[2] = subject)

BothLoaded == baseline.loaded /\ current.loaded

MissingSection(name) ==
  name \notin baseline.sections \/ name \notin current.sections

DeclaredLength(attr) ==
  CASE attr = "TransformImageToProbe" -> TransformLength
    [] attr = "PRE" -> PRELength
    [] attr = "PLDE" -> PLDELength
    [] OTHER -> 1

WellFormedAttr(doc, attr) == Len(doc[attr]) = DeclaredLength(attr)

MissingAttr(attr) ==
  ~WellFormedAttr(baseline, attr) \/ ~WellFormedAttr(current, attr)

\* All five sections and all five attributes present with declared lengths.
ValidDoc(doc) ==
  /\ doc.loaded
  /\ doc.sections = SectionNames
  /\ \A a \in AttrNames : WellFormedAttr(doc, a)

C2_Identity ==
  (/\ Returned
   /\ baseline = current
   /\ ValidDoc(baseline)
   /\ inputTranslationErrorThreshold >= 0
   /\ inputRotationErrorThreshold >= 0)
    => result = 0 /\ ComparisonLog = << >>

\* A self-comparison of a document holding a zero and a negative metric
\* value, under zero thresholds, has returned 0.
C2_Witness ==
  /\ pc = "exit"
  /\ baseline = current
  /\ ValidDoc(baseline)
  /\ baseline.PRE[1] = 0
  /\ baseline.PRE[2] < 0
  /\ inputTranslationErrorThreshold = 0
  /\ inputRotationErrorThreshold = 0
  /\ "PLDEConf" \in visited
  /\ result = 0

Range(q) == {q[i] : i \in DOMAIN q}

TranslationLine ==
  <<"translation error is higher than expected", "TransformImageToProbe">>

RotationLine ==
  <<"rotation error is higher than expected", "TransformImageToProbe">>

\* The transform block has computed both errors.
TransformCompared ==
  "TransformImageToProbe" \in visited /\ translationError # Unset

(***************************************************************************)
(* C3 as stated: for every non-negative threshold supplied on the command   *)
(* line, fractional values included, the translation check fails iff the    *)
(* translation error is strictly greater than the supplied value, and the   *)
(* rotation check likewise against the supplied rotation threshold.         *)
(***************************************************************************)
C3_SuppliedThresholdDecides ==
  (/\ TransformCompared
   /\ inputTranslationErrorThreshold >= 0
   /\ inputRotationErrorThreshold >= 0)
    => /\ TranslationLine \in Range(log)
            <=> translationError > inputTranslationErrorThreshold
       /\ RotationLine \in Range(log)
            <=> rotationError > inputRotationErrorThreshold

(***************************************************************************)
(* C4, missing-attribute robustness: an attribute absent or of the wrong    *)
(* declared length in the baseline, the current document or both records    *)
(* exactly one failure (an attribute-missing line), its comparison is       *)
(* skipped, and the pass goes on: every later block whose sections are      *)
(* present is executed.  Removing only PRE from the current document gives  *)
(* a count of exactly 1 with the PLDE checks evaluated.                     *)
(***************************************************************************)
C4_MissingAttribute ==
  /\ \A a \in AttrNames :
       (a \in visited /\ MissingAttr(a)) =>
          /\ Len(LinesAbout(a)) = 1
          /\ LinesAbout(a)[1][1] \in
               {"Baseline attribute is missing", "Current attribute is missing"}
          /\ \A r \in ratios : r[1] # a
          /\ a = "TransformImageToProbe" =>
               translationError = Unset /\ rotationError = Unset
          /\ Returned =>
               \A b \in BlocksAfter(a) :
                 (\A n \in SectionNames :
                    BlockIndex(n) <= BlockIndex(b) => ~MissingSection(n))
                   => b \in visited
  /\ (/\ Returned
      /\ ValidDoc(baseline)
      /\ current = [baseline EXCEPT !.PRE = << >>])
       => /\ result = 1
          /\ ComparisonLog = <<<<"Current attribute is missing", "PRE">>>>
          /\ {"PREConf", "PLDE", "PLDEConf"} \subseteq visited
          /\ \E r \in ratios : r[1] = "PLDE"

\* The current document lacks only PRE: the pass has ended with one failure.
C4_Witness ==
  /\ pc = "exit"
  /\ ValidDoc(baseline)
  /\ current = [baseline EXCEPT !.PRE = << >>]
  /\ "PLDE" \in visited
  /\ result = 1

(***************************************************************************)
(* C5, vector independence: the ratio rule is applied to every component    *)
(* of PRE and of PLDE; the components reported are exactly those whose      *)
(* ratio baseline/current is above 1.05 or below 0.95, one failure each.    *)
(***************************************************************************)
\* b / c > 1.05 or b / c < 0.95, in hundredths; a non-zero b over a zero c
\* is an infinite ratio, 0 / 0 is no number and is in no range.
OutOfRange(b, c) ==
  IF c = 0 THEN b # 0
  ELSE IF c > 0 THEN 100 * b > 105 * c \/ 100 * b < 95 * c
  ELSE 100 * b < 105 * c \/ 100 * b > 95 * c

C5_VectorIndependence ==
  \A a \in {"PRE", "PLDE"} :
    (a \in visited /\ ~MissingAttr(a)) =>
       LET bad == {i \in 0..(DeclaredLength(a) - 1) :
                     OutOfRange(baseline[a][i + 1], current[a][i + 1])}
       IN  /\ {e[3] : e \in Range(LinesAbout(a))} = bad
           /\ Len(LinesAbout(a)) = Cardinality(bad)
           /\ Len(ComparisonLog) = numberOfFailures

\* Exactly one of the nine PRE components is out of range, and the pass has
\* ended with one failure.
C5_Witness ==
  /\ pc = "exit"
  /\ ValidDoc(baseline) /\ ValidDoc(current)
  /\ Cardinality({i \in 1..PRELength :
                    OutOfRange(baseline.PRE[i], current.PRE[i])}) = 1
  /\ OutOfRange(baseline.PRE[2], current.PRE[2])
  /\ result = 1

(***************************************************************************)
(* C6, document-level fail-fast: if the baseline, the current document or   *)
(* both cannot be loaded, the comparison records exactly one failure and    *)
(* returns 1 without any section, attribute, transform or metric check.     *)
(***************************************************************************)
C6_DocumentFailFast ==
  ("ReadDocuments" \in visited /\ ~BothLoaded) =>
     /\ Returned
     /\ result = 1
     /\ numberOfFailures = 1
     /\ Len(ComparisonLog) = 1
     /\ ComparisonLog[1][2] = "file"
     /\ visited \subseteq {"main", "ReadDocuments", "return"}
     /\ ratios = {}
     /\ translationError = Unset /\ rotationError = Unset

\* Neither document could be loaded and the process has exited.
C6_Witness ==
  /\ pc = "exit"
  /\ ~baseline.loaded /\ ~current.loaded
  /\ result = 1

(***************************************************************************)
(* C7, end-to-end scenario: the current document equals a valid baseline    *)
(* (identity rotation block, non-zero metric values) except that its        *)
(* translation is shifted by more than the supplied translation threshold   *)
(* (0.2 against 0.05, rotation threshold 1.0 degree): exactly one           *)
(* translation failure, no rotation failure, no metric failure, total 1.    *)
(***************************************************************************)
TranslationIndices == {4, 8, 12}

SameExceptTranslation(b, c) ==
  /\ c.loaded = b.loaded /\ c.sections = b.sections
  /\ \A a \in AttrNames \ {"TransformImageToProbe"} : c[a] = b[a]
  /\ Len(c.TransformImageToProbe) = Len(b.TransformImageToProbe)
  /\ \A i \in DOMAIN b.TransformImageToProbe :
       i \notin TranslationIndices
         => c.TransformImageToProbe[i] = b.TransformImageToProbe[i]

IdentityRotationBlock(t) ==
  \A i \in 0..2, j \in 0..2 :
    t[4 * i + j + 1] = IF i = j THEN Scale ELSE 0

MetricsNonZero(doc) ==
  \A a \in {"PRE", "PREConf", "PLDE", "PLDEConf"} :
    \A i \in DOMAIN doc[a] : doc[a][i] # 0

\* The squared distance between the translation components of two arrays.
ShiftSquared(u, v) ==
  (u[4] - v[4]) * (u[4] - v[4]) + (u[8] - v[8]) * (u[8] - v[8])
    + (u[12] - v[12]) * (u[12] - v[12])

C7_ShiftedTranslation ==
  (/\ Returned
   /\ ValidDoc(baseline)
   /\ SameExceptTranslation(baseline, current)
   /\ IdentityRotationBlock(baseline.TransformImageToProbe)
   /\ MetricsNonZero(baseline)
   /\ inputTranslationErrorThreshold >= 0
   /\ inputRotationErrorThreshold >= 0
   /\ ShiftSquared(baseline.TransformImageToProbe, current.TransformImageToProbe)
        > inputTranslationErrorThreshold * inputTranslationErrorThreshold)
    => /\ ComparisonLog = <<TranslationLine>>
       /\ result = 1

\* The scenario itself: shift 0.2 along x, thresholds 0.05 and 1.0.
C7_Witness ==
  /\ pc = "exit"
  /\ baseline = BaseDoc
  /\ current = [BaseDoc EXCEPT !.TransformImageToProbe[4] = Scale \div 5]
  /\ inputTranslationErrorThreshold = Scale \div 20
  /\ inputRotationErrorThreshold = Scale
  /\ result = 1
  /\ exitStatus = EXIT_FAILURE

(***************************************************************************)
(* C8, verdict mapping: once the comparison is reached, the process exits   *)
(* with status 0 iff the returned failure count is 0, and with a non-zero   *)
(* status for every positive count.                                         *)
(***************************************************************************)
C8_VerdictMapping ==
  (pc = "exit" /\ result # Unset) =>
     /\ exitStatus = 0 <=> result = 0
     /\ result > 0 => exitStatus # 0 /\ exitStatus # Unset

\* A pass with exactly one failure has exited with EXIT_FAILURE.
C8_Witness ==
  /\ pc = "exit"
  /\ BothLoaded
  /\ result = 1
  /\ exitStatus = EXIT_FAILURE

(***************************************************************************)
(* C9, geometric errors: the translation error is the Euclidean distance    *)
(* between elements 3, 7, 11 of the two row-major arrays (to the grid of    *)
(* the fixed-point doubles), whatever the rotation blocks, and              *)
(* GetCalibrationError computes the same distance; the rotation error of    *)
(* two rotations about one axis is the difference of their angles, so a     *)
(* pure 10-degree rotation gives rotation error 10 and translation error 0. *)
(* Stated of the state in which the transform block has just computed the   *)
(* two errors; they are not assigned again.                                 *)
(***************************************************************************)
RotationBlock(t) == [i \in 0..2 |-> [j \in 0..2 |-> t[4 * i + j + 1]]]

\* The array t with its rotation block replaced by the identity.
WithIdentityRotation(t) ==
  [n \in 1..TransformLength |->
     IF (n - 1) % 4 = 3 \/ n > 12 THEN t[n]
     ELSE IF (n - 1) \div 4 = (n - 1) % 4 THEN Scale ELSE 0]

C9_GeometricErrors ==
  (TransformCompared /\ pc = "ErrorReports") =>
    LET u == baseline.TransformImageToProbe
        v == current.TransformImageToProbe
        sq == ShiftSquared(u, v)
    IN  /\ translationError >= 0
        /\ translationError * translationError <= sq
        /\ sq < (translationError + 1) * (translationError + 1)
        /\ GetCalibrationError(MatrixFromArray(u), MatrixFromArray(v))
             = translationError
        /\ GetCalibrationError(MatrixFromArray(WithIdentityRotation(u)),
                               MatrixFromArray(WithIdentityRotation(v)))
             = translationError
        /\ \A axis \in {"z", "x"}, a \in 0..MaxRot, b \in 0..MaxRot :
             (/\ RotationBlock(u)
                   = RotationBlock(MakeTransform(axis, a, <<0, 0, 0>>))
              /\ RotationBlock(v)
                   = RotationBlock(MakeTransform(axis, b, <<0, 0, 0>>)))
               => rotationError = 10 * Abs(a - b) * Scale

\* Two transforms with the same translation, 10 degrees apart about x.
C9_Witness ==
  /\ TransformCompared
  /\ pc = "ErrorReports"
  /\ RotationBlock(baseline.TransformImageToProbe)
       = RotationBlock(MakeTransform("x", 2, <<0, 0, 0>>))
  /\ RotationBlock(current.TransformImageToProbe)
       = RotationBlock(MakeTransform("x", 1, <<0, 0, 0>>))
  /\ ShiftSquared(baseline.TransformImageToProbe,
                  current.TransformImageToProbe) = 0
  /\ rotationError = 10 * Scale
  /\ translationError = 0

(***************************************************************************)
(* C10 as stated: the ratio baseline/current is evaluated only when the     *)
(* current value is non-zero, so no division has a zero divisor.            *)
(***************************************************************************)
C10_DivisorNeverZero == \A r \in ratios : r[3] # 0

(***************************************************************************)
(* C11, asymmetry of the ratio rule: there are non-zero values b and c      *)
(* (0.951 and 1.0) for which baseline b against current c records no        *)
(* failure while baseline c against current b records one, so exchanging    *)
(* the two documents changes the failure count.  Stated of two valid        *)
(* documents that differ only in the first PRE component.                   *)
(***************************************************************************)
LowValue == (951 * Scale) \div 1000

DifferOnlyInFirstPRE(b, c) ==
  /\ ValidDoc(b) /\ ValidDoc(c)
  /\ \A a \in AttrNames \ {"PRE"} : b[a] = c[a]
  /\ \A i \in 2..PRELength : b.PRE[i] = c.PRE[i]
  /\ MetricsNonZero([b EXCEPT !.PRE[1] = Scale])

C11_RatioAsymmetry ==
  (Returned /\ DifferOnlyInFirstPRE(baseline, current)) =>
     /\ (baseline.PRE[1] = LowValue /\ current.PRE[1] = Scale)
          => result = 0 /\ ComparisonLog = << >>
     /\ (baseline.PRE[1] = Scale /\ current.PRE[1] = LowValue)
          => /\ result = 1
             /\ ComparisonLog = <<<<"element mismatch", "PRE", 0>>>>

\* Baseline 1.0 against current 0.951 has recorded one failure, and the
\* loop on the exchanged vectors reports none.
C11_Witness ==
  /\ pc = "exit"
  /\ DifferOnlyInFirstPRE(baseline, current)
  /\ baseline.PRE[1] = Scale
  /\ current.PRE[1] = LowValue
  /\ result = 1
  /\ VectorMismatches(current.PRE, baseline.PRE, PRELength) = << >>

(***************************************************************************)
(* C12, failure-count accounting: the count starts at 0, never decreases    *)
(* and grows by exactly one per failure logged by the comparison; every     *)
(* return, early or final, returns the count accumulated so far; the        *)
(* returned count lies between 0 and 16: at most 2 for the transform,       *)
(* 9 + 1 for the PRE record and 3 + 1 for the PLDE record.                  *)
(***************************************************************************)
MostFailures == 2 + (PRELength + 1) + (PLDELength + 1)

CountAccounted ==
  /\ pc = "main" => numberOfFailures = 0
  /\ numberOfFailures = Len(ComparisonLog)
  /\ result # Unset => result = numberOfFailures
  /\ pc \in {"return", "exit"} /\ "ReadDocuments" \in visited => result # Unset
  /\ numberOfFailures >= 0 /\ numberOfFailures <= MostFailures
  /\ Len(LinesAbout("TransformImageToProbe")) <= 2
  /\ Len(LinesAbout("PRE")) + Len(LinesAbout("PREConf")) <= PRELength + 1
  /\ Len(LinesAbout("PLDE")) + Len(LinesAbout("PLDEConf")) <= PLDELength + 1

CountGrows ==
  /\ numberOfFailures' >= numberOfFailures
  /\ numberOfFailures' - numberOfFailures
       = Len(ComparisonLog') - Len(ComparisonLog)
  /\ result # Unset => result' = result

C12_FailureCountAccounting == [](CountAccounted) /\ [][CountGrows]_vars

\* Every check of an intact pair has failed: the pass returned 16.
C12_Witness ==
  /\ pc = "exit"
  /\ result = MostFailures
  /\ numberOfFailures = 16

=============================================================================
